---- MODULE Spec2Model ----
(***************************************************************************)
(* State-machine model of twilio-tools (src/src/index.ts): the interactive *)
(* menu loop, the lazily created Twilio client, and the three workflows    *)
(* listNumbers, purchaseNumber and bulkPurchaseNumbers.                    *)
(*                                                                         *)
(* The program is a single async call chain.  Every `await` (a prompt or a *)
(* remote call) is a position of pc; one action resumes the code from that *)
(* await and runs it up to the next one.  Prompt answers and the remote    *)
(* service's replies are the inputs, drawn from small sets.  A prompt with *)
(* a `validate` callback only resolves with an answer the callback         *)
(* accepts, so the callback is the guard of the answering action.          *)
(*                                                                         *)
(* A workflow's local variables live until it returns.  What outlives the  *)
(* return, until the menu loop goes round, is what the run left outside    *)
(* the program: the create requests sent and the last line printed.        *)
(***************************************************************************)
EXTENDS Integers, Sequences, FiniteSets, TLC

VARIABLES
  pc,                 \* the await the program is suspended at
  env,                \* process.env: are TWILIO_ACCOUNT_SID / AUTH_TOKEN set
  twilioClient,       \* module-level handle: None (null) or Some(handle id)
  clientsCreated,     \* number of handles twilio(...) has constructed so far
  exitProgram,        \* showMainMenu's loop flag
  action,             \* the menu choice being served
  searchParams,       \* the object passed to availablePhoneNumbers().local.list
  quantityNum,        \* parseInt(quantity, 10) of the bulk workflow
  availableNumbers,   \* result of the remote search, in order
  choices,            \* the checkbox choices of the bulk selection prompt
  warned,             \* "Warning: Only found N numbers" was printed
  selectedIndex,      \* purchaseNumber: answer of the list prompt
  friendlyName,       \* purchaseNumber: answer of the friendly-name prompt
  selectedNumbers,    \* bulk: answer of the checkbox prompt (indices)
  friendlyNamePrefix, \* bulk: answer of the prefix prompt
  confirmPurchase,    \* answer of the confirm prompt, None until answered
  i,                  \* bulk: loop variable (0-based)
  results,            \* bulk: the PurchaseResult list
  settled,            \* bulk: what each create call settled with, in order
                      \* (the purchasedNumber or the err of each iteration)
  requests,           \* incomingPhoneNumbers.create calls of this invocation
  inflight,           \* create calls issued and not yet settled
  console             \* the line the workflow printed on its way out, or None

vars == <<pc, env, twilioClient, clientsCreated, exitProgram, action,
          searchParams, quantityNum, availableNumbers, choices, warned,
          selectedIndex, friendlyName, selectedNumbers, friendlyNamePrefix,
          confirmPurchase, i, results, settled, requests, inflight,
          console>>

-----------------------------------------------------------------------------
(* Bounds and program constants *)

\* Largest number of candidates the remote search returns in the model.
MaxAvail == 4

\* validate of the quantity prompt: num <= 10.
MaxQuantity == 10

\* Math.max(quantityNum * 2, 20).
MinLimit == 20

\* An absent value (null, undefined, an unset property) and a present one.
None == <<>>
Some(v) == <<v>>

Min(a, b) == IF a <= b THEN a ELSE b
Max(a, b) == IF a >= b THEN a ELSE b

-----------------------------------------------------------------------------
(* Inputs *)

\* process.env at start-up: credentials absent, present and accepted by
\* twilio(), or present and rejected by twilio() (which throws on a
\* malformed account SID).
Environments == {"absent", "valid", "malformed"}

MenuActions == {"list-numbers", "purchase-number", "bulk-purchase", "exit"}
SearchTypes == {"areaCode", "country"}
AreaCodes == {"415"}
Countries == {"GB"}
CapabilityAnswers == {{"voice", "sms"}, {}}

\* Raw answers typed at the quantity prompt, as character sequences.
QuantityInputs ==
  { <<"1">>, <<"2">>, <<"3">>, <<"4">>, <<"5">>, <<"6">>, <<"7">>, <<"8">>,
    <<"9">>, <<"1", "0">>, <<"0">>, <<"1", "1">>, <<>>, <<"a", "b">>,
    <<"2", "x">>, <<" ", "3">>, <<"-", "1">>, <<"5", ".", "7">>,
    <<"0", "7">> }

FriendlyNames == {"New Number", "Office"}
Prefixes == {"Bulk Purchase", "Batch"}
\* Error.message of a rejected create call; "" stands for a missing message.
ErrorMessages == {"number taken", ""}

\* The k-th number the remote service has on offer.
Phone(k) == "+1415555010" \o ToString(k)
\* The SID the remote service assigns to a purchased number.
Sid(phone) == "PN" \o phone

-----------------------------------------------------------------------------
(* Pure functions of the source *)

Digits == <<"0", "1", "2", "3", "4", "5", "6", "7", "8", "9">>
IsDigit(c) == \E k \in 1..Len(Digits) : Digits[k] = c
DigitValue(c) == (CHOOSE k \in 1..Len(Digits) : Digits[k] = c) - 1

RECURSIVE SkipSpaces(_)
SkipSpaces(s) ==
  IF s # <<>> /\ Head(s) = " " THEN SkipSpaces(Tail(s)) ELSE s

\* Value of the longest all-digit prefix of s, acc being the value so far.
RECURSIVE DigitPrefix(_, _)
DigitPrefix(s, acc) ==
  IF s # <<>> /\ IsDigit(Head(s))
    THEN DigitPrefix(Tail(s), acc * 10 + DigitValue(Head(s)))
    ELSE acc

\* parseInt(input, 10): leading blanks, an optional sign, then the longest
\* run of digits; None (NaN) when no digit follows.
parseInt(input) ==
  LET t == SkipSpaces(input)
      signed == t # <<>> /\ Head(t) \in {"-", "+"}
      u == IF signed THEN Tail(t) ELSE t
  IN  IF u = <<>> \/ ~IsDigit(Head(u)) THEN None
      ELSE IF signed /\ Head(t) = "-" THEN Some(0 - DigitPrefix(u, 0))
      ELSE Some(DigitPrefix(u, 0))

\* validate of the quantity prompt (a comparison with NaN is false).
validateQuantity(input) ==
  LET num == parseInt(input)
  IN  num # None /\ num[1] > 0 /\ num[1] <= MaxQuantity

\* Variant: the limit without its floor of 20.
searchLimit_NoFloor(q) == q * 2

\* searchParams.limit = Math.max(quantityNum * 2, 20)
searchLimit(q) == Max(q * 2, MinLimit)

\* availableNumbers.slice(0, Math.min(availableNumbers.length, quantityNum * 2))
selectable(avail, q) == SubSeq(avail, 1, Min(Len(avail), q * 2))

\* Variant: one choice too many is pre-checked.
preChecked_OffByOne(index, q) == index <= q

\* checked: index < quantityNum
preChecked(index, q) == index < q

\* The choices of the checkbox prompt: value is the 0-based index.
checkboxChoices(avail, q) ==
  [k \in 1..Len(selectable(avail, q)) |->
     [value |-> k - 1,
      phoneNumber |-> selectable(avail, q)[k].phoneNumber,
      checked |-> preChecked(k - 1, q)]]

\* Variant: the upper bound of the selection is not tested.
validateSelection_NoUpper(selected, q) == ~(Len(selected) = 0)

\* validate of the checkbox prompt.
validateSelection(selected, q) ==
  ~(Len(selected) = 0) /\ ~(Len(selected) > q)

\* The answer of a checkbox prompt: the values of the ticked choices, in the
\* order of the choices.
RECURSIVE Ticked(_, _)
Ticked(cs, S) ==
  IF cs = <<>> THEN <<>>
  ELSE (IF Head(cs).value \in S THEN <<Head(cs).value>> ELSE <<>>)
         \o Ticked(Tail(cs), S)

\* Variant: the suffix is the 0-based loop index.
bulkFriendlyName_ZeroBased(prefix, idx) == prefix \o " " \o ToString(idx)

\* `${friendlyNamePrefix} ${i + 1}`
bulkFriendlyName(prefix, idx) == prefix \o " " \o ToString(idx + 1)

\* Variant: no fallback for a missing message.
errorText_Raw(message) == message

\* error.message || 'Unknown error'
errorText(message) == IF message = "" THEN "Unknown error" ELSE message

\* The object pushed on a successful create: purchasedNumber's fields, with
\* '' for a missing sid or friendlyName.
successResult(purchased) ==
  [success |-> TRUE,
   phoneNumber |-> purchased.phoneNumber,
   sid |-> IF purchased.sid = None THEN "" ELSE purchased.sid[1],
   friendlyName |-> IF purchased.friendlyName = None THEN ""
                    ELSE purchased.friendlyName[1]]

\* The object pushed when create throws.
failureResult(phone, message) ==
  [success |-> FALSE, phoneNumber |-> phone, error |-> errorText(message)]

\* What the remote service answers to a create request: the requested
\* number, and either the sid and the friendly name or neither of them.
purchasedNumber(request, complete) ==
  [phoneNumber |-> request.phoneNumber,
   sid |-> IF complete THEN Some(Sid(request.phoneNumber)) ELSE None,
   friendlyName |-> IF complete THEN Some(request.friendlyName) ELSE None]

EmptyParams ==
  [country |-> None, areaCode |-> None, voiceEnabled |-> FALSE,
   smsEnabled |-> FALSE, mmsEnabled |-> FALSE, limit |-> None]

-----------------------------------------------------------------------------
(* Initial state: module load, before showMainMenu's first prompt *)

Init ==
  /\ pc = "menu"
  /\ env \in Environments
  /\ twilioClient = None
  /\ clientsCreated = 0
  /\ exitProgram = FALSE
  /\ action = "none"
  /\ searchParams = EmptyParams
  /\ quantityNum = 0
  /\ availableNumbers = <<>>
  /\ choices = <<>>
  /\ warned = FALSE
  /\ selectedIndex = -1
  /\ friendlyName = ""
  /\ selectedNumbers = <<>>
  /\ friendlyNamePrefix = ""
  /\ confirmPurchase = None
  /\ i = 0
  /\ results = <<>>
  /\ settled = <<>>
  /\ requests = <<>>
  /\ inflight = 0
  /\ console = None

global == <<env, twilioClient, clientsCreated, exitProgram>>

\* The local variables of a workflow invocation.
frame == <<searchParams, quantityNum, availableNumbers, choices, warned,
           selectedIndex, friendlyName, selectedNumbers, friendlyNamePrefix,
           confirmPurchase, i, results, settled>>

\* The function returns: its locals are gone.
DiscardFrame ==
  /\ searchParams' = EmptyParams
  /\ quantityNum' = 0
  /\ availableNumbers' = <<>>
  /\ choices' = <<>>
  /\ warned' = FALSE
  /\ selectedIndex' = -1
  /\ friendlyName' = ""
  /\ selectedNumbers' = <<>>
  /\ friendlyNamePrefix' = ""
  /\ confirmPurchase' = None
  /\ i' = 0
  /\ results' = <<>>
  /\ settled' = <<>>

\* The workflow prints `line` and returns to showMainMenu, which shows the
\* "Press Enter to continue..." prompt.
Return(line) ==
  /\ pc' = "continue"
  /\ console' = Some(line)
  /\ DiscardFrame

\* The messages of the catch blocks at the workflows' boundaries.
CatchMessages ==
  {"Failed to retrieve phone numbers:", "Error purchasing phone number:",
   "Error in bulk purchase:"}

\* The catch block at the boundary of the running workflow.
CatchMessage ==
  IF action = "list-numbers" THEN "Failed to retrieve phone numbers:"
  ELSE IF action = "purchase-number" THEN "Error purchasing phone number:"
  ELSE "Error in bulk purchase:"

\* An error is thrown inside the workflow's try block.
Throw == pc' = "thrown"

-----------------------------------------------------------------------------
(* showMainMenu *)

\* The menu prompt is answered: the switch calls the chosen workflow, whose
\* first statement calls ensureTwilioClient; `exit` ends the loop.
MenuSelect(a) ==
  /\ pc = "menu"
  /\ ~exitProgram
  /\ action' = a
  /\ IF a = "exit"
       THEN exitProgram' = TRUE /\ pc' = "done" /\ console' = Some("Goodbye!")
       ELSE exitProgram' = FALSE /\ pc' = "ensure" /\ console' = None
  /\ UNCHANGED <<env, twilioClient, clientsCreated, frame, requests, inflight>>

\* "Press Enter to continue..." is answered: the loop goes round.
PressEnter ==
  /\ pc = "continue"
  /\ ~exitProgram
  /\ pc' = "menu"
  /\ action' = "none"
  /\ requests' = <<>>
  /\ console' = None
  /\ UNCHANGED <<global, frame, inflight>>

-----------------------------------------------------------------------------
(* ensureTwilioClient *)

\* Variant: the cached handle is never looked at.
clientCached_Never == FALSE

\* if (twilioClient)
clientCached == twilioClient # None

\* Where a workflow continues once it holds the client.
AfterEnsure == IF action = "list-numbers" THEN "list" ELSE "searchType"

\* return twilioClient
ensureCached ==
  /\ pc = "ensure"
  /\ clientCached
  /\ pc' = AfterEnsure
  /\ UNCHANGED <<global, action, frame, requests, inflight, console>>

\* twilioClient = twilio(process.env...): the handle is stored, or twilio()
\* throws.
ensureFromEnv ==
  /\ pc = "ensure"
  /\ ~clientCached
  /\ env # "absent"
  /\ IF env = "valid"
       THEN /\ twilioClient' = Some(clientsCreated + 1)
            /\ clientsCreated' = clientsCreated + 1
            /\ pc' = AfterEnsure
            /\ UNCHANGED <<frame, console>>
       ELSE /\ Throw
            /\ UNCHANGED <<twilioClient, clientsCreated, frame, console>>
  /\ UNCHANGED <<env, exitProgram, action, requests, inflight>>

\* No credentials in the environment: the credentials prompt is shown.
ensurePrompt ==
  /\ pc = "ensure"
  /\ ~clientCached
  /\ env = "absent"
  /\ pc' = "credentials"
  /\ UNCHANGED <<global, action, frame, requests, inflight, console>>

\* The credentials prompt is answered; twilio(accountSid, authToken) accepts
\* them (wellFormed) or throws.
CredentialsEntered(wellFormed) ==
  /\ pc = "credentials"
  /\ IF wellFormed
       THEN /\ twilioClient' = Some(clientsCreated + 1)
            /\ clientsCreated' = clientsCreated + 1
            /\ pc' = AfterEnsure
            /\ UNCHANGED <<frame, console>>
       ELSE /\ Throw
            /\ UNCHANGED <<twilioClient, clientsCreated, frame, console>>
  /\ UNCHANGED <<env, exitProgram, action, requests, inflight>>

-----------------------------------------------------------------------------
(* The catch block at the boundary of listNumbers, purchaseNumber and      *)
(* bulkPurchaseNumbers                                                     *)

\* Variant: no catch at the workflow boundary; the error leaves
\* showMainMenu and the top-level handler ends the process.
workflowCatch_Rethrow ==
  /\ pc = "thrown"
  /\ pc' = "exited"
  /\ console' = Some("An error occurred: ")
  /\ DiscardFrame
  /\ UNCHANGED <<global, action, requests, inflight>>

\* The thrown error reaches the workflow's catch, which logs it; the
\* function then returns normally.
workflowCatch ==
  /\ pc = "thrown"
  /\ Return(CatchMessage)
  /\ UNCHANGED <<global, action, requests, inflight>>

-----------------------------------------------------------------------------
(* listNumbers *)

\* client.incomingPhoneNumbers.list() resolves: with no number the "No phone
\* numbers found" line is printed, otherwise the table.
listResolves(empty) ==
  /\ pc = "list"
  /\ Return(IF empty THEN "No phone numbers found in this account."
            ELSE "table(data)")
  /\ UNCHANGED <<global, action, requests, inflight>>

\* client.incomingPhoneNumbers.list() rejects.
listFails ==
  /\ pc = "list"
  /\ Throw
  /\ UNCHANGED <<global, action, frame, requests, inflight, console>>

-----------------------------------------------------------------------------
(* Search criteria prompts, the same code in purchaseNumber and in         *)
(* bulkPurchaseNumbers                                                     *)

notParams == <<quantityNum, availableNumbers, choices, warned, selectedIndex,
               friendlyName, selectedNumbers, friendlyNamePrefix,
               confirmPurchase, i, results, settled>>

AnswerSearchType(searchType) ==
  /\ pc = "searchType"
  /\ pc' = searchType
  /\ UNCHANGED <<global, action, frame, requests, inflight, console>>

AnswerAreaCode(areaCode) ==
  /\ pc = "areaCode"
  /\ searchParams' = [EmptyParams EXCEPT !.areaCode = Some(areaCode),
                                         !.country = Some("US")]
  /\ pc' = "capabilities"
  /\ UNCHANGED <<global, action, notParams, requests, inflight, console>>

AnswerCountry(country) ==
  /\ pc = "country"
  /\ searchParams' = [EmptyParams EXCEPT !.country = Some(country)]
  /\ pc' = "capabilities"
  /\ UNCHANGED <<global, action, notParams, requests, inflight, console>>

\* The capabilities prompt is answered.  purchaseNumber then starts the
\* search; bulkPurchaseNumbers asks for the quantity first.
AnswerCapabilities(capabilities) ==
  /\ pc = "capabilities"
  /\ searchParams' = [searchParams EXCEPT
                        !.voiceEnabled = "voice" \in capabilities,
                        !.smsEnabled = "sms" \in capabilities,
                        !.mmsEnabled = "mms" \in capabilities]
  /\ pc' = IF action = "bulk-purchase" THEN "quantity" ELSE "search"
  /\ UNCHANGED <<global, action, notParams, requests, inflight, console>>

\* The quantity prompt is answered with an input its validate accepts; the
\* limit is set and the search starts.
AnswerQuantity(quantity) ==
  /\ pc = "quantity"
  /\ validateQuantity(quantity)
  /\ quantityNum' = parseInt(quantity)[1]
  /\ searchParams' = [searchParams EXCEPT
                        !.limit = Some(searchLimit(parseInt(quantity)[1]))]
  /\ pc' = "search"
  /\ UNCHANGED <<global, action, availableNumbers, choices, warned,
                 selectedIndex, friendlyName, selectedNumbers,
                 friendlyNamePrefix, confirmPurchase, i, results, settled,
                 requests, inflight, console>>

\* The remote search answers with its first n numbers, never more than the
\* limit it was given.
SearchResult(n) == [k \in 1..n |-> [phoneNumber |-> Phone(k)]]
WithinLimit(n) ==
  IF searchParams.limit = None THEN TRUE ELSE n <= searchParams.limit[1]

\* availablePhoneNumbers(...).local.list rejects, in either workflow.
searchFails ==
  /\ pc = "search"
  /\ Throw
  /\ UNCHANGED <<global, action, frame, requests, inflight, console>>

-----------------------------------------------------------------------------
(* Confirmation gate, the same test in both purchase workflows *)

\* Variant: the answer of the confirm prompt is ignored.
declined_Never(answer) == FALSE

\* if (!confirmPurchase) { ...; return }
declined(answer) == ~answer

-----------------------------------------------------------------------------
(* purchaseNumber *)

\* The search resolves: nothing found returns, otherwise the list prompt
\* with every number found and Cancel is shown.
purchaseSearchResolves(n) ==
  /\ pc = "search"
  /\ action = "purchase-number"
  /\ WithinLimit(n)
  /\ IF n = 0
       THEN Return("No phone numbers found matching your criteria.")
       ELSE /\ availableNumbers' = SearchResult(n)
            /\ pc' = "purchaseSelect"
            /\ UNCHANGED <<searchParams, quantityNum, choices, warned,
                           selectedIndex, friendlyName, selectedNumbers,
                           friendlyNamePrefix, confirmPurchase, i, results,
                           settled, console>>
  /\ UNCHANGED <<global, action, requests, inflight>>

\* The list prompt is answered with an index or with Cancel (-1).
AnswerSelectedIndex(index) ==
  /\ pc = "purchaseSelect"
  /\ IF index = -1
       THEN Return("Purchase cancelled.")
       ELSE /\ selectedIndex' = index
            /\ pc' = "purchaseName"
            /\ UNCHANGED <<searchParams, quantityNum, availableNumbers,
                           choices, warned, friendlyName, selectedNumbers,
                           friendlyNamePrefix, confirmPurchase, i, results,
                           settled, console>>
  /\ UNCHANGED <<global, action, requests, inflight>>

AnswerFriendlyName(name) ==
  /\ pc = "purchaseName"
  /\ friendlyName' = name
  /\ pc' = "purchaseConfirm"
  /\ UNCHANGED <<global, action, searchParams, quantityNum, availableNumbers,
                 choices, warned, selectedIndex, selectedNumbers,
                 friendlyNamePrefix, confirmPurchase, i, results, settled,
                 requests, inflight, console>>

\* The confirm prompt is answered: declined returns, otherwise the create
\* request for the selected number is issued.
purchaseConfirm(answer) ==
  /\ pc = "purchaseConfirm"
  /\ IF declined(answer)
       THEN Return("Purchase cancelled.") /\ UNCHANGED <<requests, inflight>>
       ELSE /\ confirmPurchase' = Some(answer)
            /\ requests' = Append(requests,
                 [phoneNumber |-> availableNumbers[selectedIndex + 1].phoneNumber,
                  friendlyName |-> friendlyName])
            /\ inflight' = inflight + 1
            /\ pc' = "purchaseCreate"
            /\ UNCHANGED <<searchParams, quantityNum, availableNumbers,
                           choices, warned, selectedIndex, friendlyName,
                           selectedNumbers, friendlyNamePrefix, i, results,
                           settled, console>>
  /\ UNCHANGED <<global, action>>

\* create resolves: the three success lines are printed.
purchaseCreateResolves ==
  /\ pc = "purchaseCreate"
  /\ inflight' = inflight - 1
  /\ Return("Friendly Name: " \o requests[Len(requests)].friendlyName)
  /\ UNCHANGED <<global, action, requests>>

\* create rejects: the error goes to the function's catch.
purchaseCreateFails ==
  /\ pc = "purchaseCreate"
  /\ inflight' = inflight - 1
  /\ Throw
  /\ UNCHANGED <<global, action, frame, requests, console>>

-----------------------------------------------------------------------------
(* bulkPurchaseNumbers *)

\* The search resolves: nothing found returns; otherwise the warning is
\* printed when fewer than quantityNum were found, and the checkbox prompt
\* is shown.
bulkSearchResolves(n) ==
  /\ pc = "search"
  /\ action = "bulk-purchase"
  /\ WithinLimit(n)
  /\ IF n = 0
       THEN Return("No phone numbers found matching your criteria.")
       ELSE /\ availableNumbers' = SearchResult(n)
            /\ warned' = (n < quantityNum)
            /\ choices' = checkboxChoices(SearchResult(n), quantityNum)
            /\ pc' = "bulkSelect"
            /\ UNCHANGED <<searchParams, quantityNum, selectedIndex,
                           friendlyName, selectedNumbers, friendlyNamePrefix,
                           confirmPurchase, i, results, settled, console>>
  /\ UNCHANGED <<global, action, requests, inflight>>

\* The checkbox prompt is answered with a set of ticked choices its validate
\* accepts; an empty answer returns.
AnswerSelection(ticked) ==
  /\ pc = "bulkSelect"
  /\ validateSelection(Ticked(choices, ticked), quantityNum)
  /\ IF Len(Ticked(choices, ticked)) = 0
       THEN Return("No numbers selected. Purchase cancelled.")
       ELSE /\ selectedNumbers' = Ticked(choices, ticked)
            /\ pc' = "prefix"
            /\ UNCHANGED <<searchParams, quantityNum, availableNumbers,
                           choices, warned, selectedIndex, friendlyName,
                           friendlyNamePrefix, confirmPurchase, i, results,
                           settled, console>>
  /\ UNCHANGED <<global, action, requests, inflight>>

AnswerPrefix(prefix) ==
  /\ pc = "prefix"
  /\ friendlyNamePrefix' = prefix
  /\ pc' = "bulkConfirm"
  /\ UNCHANGED <<global, action, searchParams, quantityNum, availableNumbers,
                 choices, warned, selectedIndex, friendlyName,
                 selectedNumbers, confirmPurchase, i, results, settled,
                 requests, inflight, console>>

\* The confirm prompt is answered: declined returns, otherwise the loop is
\* entered with results = [] and i = 0.
bulkConfirm(answer) ==
  /\ pc = "bulkConfirm"
  /\ IF declined(answer)
       THEN Return("Purchase cancelled.")
       ELSE /\ confirmPurchase' = Some(answer)
            /\ results' = <<>>
            /\ i' = 0
            /\ pc' = "bulkLoop"
            /\ UNCHANGED <<searchParams, quantityNum, availableNumbers,
                           choices, warned, selectedIndex, friendlyName,
                           selectedNumbers, friendlyNamePrefix, settled,
                           console>>
  /\ UNCHANGED <<global, action, requests, inflight>>

\* const number = availableNumbers[selectedNumbers[i]]
bulkNumber(idx) == availableNumbers[selectedNumbers[idx + 1] + 1]

\* Variant: the create call is not awaited; the loop moves on at once.
bulkLoopIssue_NoAwait ==
  /\ pc = "bulkLoop"
  /\ i < Len(selectedNumbers)
  /\ requests' = Append(requests,
       [phoneNumber |-> bulkNumber(i).phoneNumber,
        friendlyName |-> bulkFriendlyName(friendlyNamePrefix, i)])
  /\ inflight' = inflight + 1
  /\ i' = i + 1
  /\ pc' = "bulkLoop"
  /\ UNCHANGED <<global, action, searchParams, quantityNum, availableNumbers,
                 choices, warned, selectedIndex, friendlyName,
                 selectedNumbers, friendlyNamePrefix, confirmPurchase,
                 results, settled, console>>

\* Loop test passed: the create request for item i is issued.
bulkLoopIssue ==
  /\ pc = "bulkLoop"
  /\ i < Len(selectedNumbers)
  /\ requests' = Append(requests,
       [phoneNumber |-> bulkNumber(i).phoneNumber,
        friendlyName |-> bulkFriendlyName(friendlyNamePrefix, i)])
  /\ inflight' = inflight + 1
  /\ pc' = "bulkCreate"
  /\ UNCHANGED <<global, action, frame, console>>

\* create resolves: a success is pushed and the loop moves on.
bulkCreateResolves(complete) ==
  /\ pc = "bulkCreate"
  /\ inflight' = inflight - 1
  /\ settled' = Append(settled,
       [ok |-> TRUE,
        purchasedNumber |-> purchasedNumber(requests[Len(requests)], complete)])
  /\ results' = Append(results,
       successResult(purchasedNumber(requests[Len(requests)], complete)))
  /\ i' = i + 1
  /\ pc' = "bulkLoop"
  /\ UNCHANGED <<global, action, searchParams, quantityNum, availableNumbers,
                 choices, warned, selectedIndex, friendlyName,
                 selectedNumbers, friendlyNamePrefix, confirmPurchase,
                 requests, console>>

\* Variant: the inner catch records nothing.
bulkCreateFails_Skip(message) ==
  /\ pc = "bulkCreate"
  /\ inflight' = inflight - 1
  /\ settled' = Append(settled, [ok |-> FALSE, message |-> message])
  /\ i' = i + 1
  /\ pc' = "bulkLoop"
  /\ UNCHANGED <<global, action, searchParams, quantityNum, availableNumbers,
                 choices, warned, selectedIndex, friendlyName,
                 selectedNumbers, friendlyNamePrefix, confirmPurchase,
                 results, requests, console>>

\* create rejects: the inner catch pushes a failure and the loop moves on.
bulkCreateFails(message) ==
  /\ pc = "bulkCreate"
  /\ inflight' = inflight - 1
  /\ settled' = Append(settled, [ok |-> FALSE, message |-> message])
  /\ results' = Append(results,
       failureResult(bulkNumber(i).phoneNumber, message))
  /\ i' = i + 1
  /\ pc' = "bulkLoop"
  /\ UNCHANGED <<global, action, searchParams, quantityNum, availableNumbers,
                 choices, warned, selectedIndex, friendlyName,
                 selectedNumbers, friendlyNamePrefix, confirmPurchase,
                 requests, console>>

\* results.filter(r => r.success).length
successCount(rs) == Cardinality({k \in 1..Len(rs) : rs[k].success})
failureCount(rs) == Cardinality({k \in 1..Len(rs) : ~rs[k].success})

\* Loop test failed: the summary is printed and the function returns.
bulkSummary ==
  /\ pc = "bulkLoop"
  /\ ~(i < Len(selectedNumbers))
  /\ Return("Successfully purchased " \o ToString(successCount(results))
            \o " out of " \o ToString(Len(selectedNumbers)) \o " numbers")
  /\ UNCHANGED <<global, action, requests, inflight>>

-----------------------------------------------------------------------------
(* Specification *)

Next ==
  \/ \E a \in MenuActions : MenuSelect(a)
  \/ PressEnter
  \/ ensureCached
  \/ ensureFromEnv
  \/ ensurePrompt
  \/ \E wellFormed \in BOOLEAN : CredentialsEntered(wellFormed)
  \/ workflowCatch
  \/ \E empty \in BOOLEAN : listResolves(empty)
  \/ listFails
  \/ \E searchType \in SearchTypes : AnswerSearchType(searchType)
  \/ \E areaCode \in AreaCodes : AnswerAreaCode(areaCode)
  \/ \E country \in Countries : AnswerCountry(country)
  \/ \E capabilities \in CapabilityAnswers : AnswerCapabilities(capabilities)
  \/ \E quantity \in QuantityInputs : AnswerQuantity(quantity)
  \/ searchFails
  \/ \E n \in 0..MaxAvail : purchaseSearchResolves(n)
  \/ \E index \in -1..(Len(availableNumbers) - 1) : AnswerSelectedIndex(index)
  \/ \E name \in FriendlyNames : AnswerFriendlyName(name)
  \/ \E answer \in BOOLEAN : purchaseConfirm(answer)
  \/ purchaseCreateResolves
  \/ purchaseCreateFails
  \/ \E n \in 0..MaxAvail : bulkSearchResolves(n)
  \/ \E ticked \in SUBSET {choices[k].value : k \in 1..Len(choices)} :
       AnswerSelection(ticked)
  \/ \E prefix \in Prefixes : AnswerPrefix(prefix)
  \/ \E answer \in BOOLEAN : bulkConfirm(answer)
  \/ bulkLoopIssue
  \/ \E complete \in BOOLEAN : bulkCreateResolves(complete)
  \/ \E message \in ErrorMessages : bulkCreateFails(message)
  \/ bulkSummary

Spec == Init /\ [][Next]_vars

\* A thrown error reaches the enclosing catch, and the prompt that ends a
\* workflow's round of the menu loop is answered.
FairSpec == Spec /\ WF_vars(workflowCatch) /\ WF_vars(PressEnter)

-----------------------------------------------------------------------------
(* Properties *)

\* Number of selected candidates of the running bulk purchase.
N == Len(selectedNumbers)

\* The candidate at position k (1-based) of the confirmed selection.
Candidate(k) == availableNumbers[selectedNumbers[k] + 1]

\* "{prefix} k"
ExpectedName(k) == friendlyNamePrefix \o " " \o ToString(k)

InBulkLoop == pc \in {"bulkLoop", "bulkCreate"}

\* The purchase loop has ended; the summary is about to be printed.
LoopEnded == pc = "bulkLoop" /\ ~(i < N)

AllSucceeded == Len(settled) = N /\ \A k \in 1..N : settled[k].ok

OnlyFailureAt(k) ==
  /\ Len(settled) = N
  /\ ~settled[k].ok
  /\ \A j \in (1..N) \ {k} : settled[j].ok

\* C1: during the purchase loop every outcome recorded so far sits at the
\* position of the selected candidate it is about, and when the loop ends
\* there are exactly N outcomes, successes and failures adding up to N.
C1_OneOutcomePerCandidate ==
  /\ InBulkLoop =>
       /\ Len(results) <= N
       /\ \A k \in 1..Len(results) :
            results[k].phoneNumber = Candidate(k).phoneNumber
  /\ LoopEnded =>
       /\ N > 0
       /\ Len(results) = N
       /\ successCount(results) + failureCount(results) = N

C1_Witness ==
  /\ LoopEnded
  /\ N >= 3
  /\ successCount(results) >= 1
  /\ failureCount(results) >= 1

\* C2: when the loop has ended and the create call at position k was the
\* only one to fail, outcome k is a Failure with the requested phone number
\* and the error's message ('Unknown error' for a missing one), every other
\* outcome is a Success, every item after k was requested, and item j > k
\* was requested under the name "{prefix} j".
C2_FailureIsolation ==
  LoopEnded =>
    \A k \in 1..N :
      OnlyFailureAt(k) =>
        /\ Len(results) = N
        /\ Len(requests) = N
        /\ requests[k].phoneNumber = Candidate(k).phoneNumber
        /\ results[k] =
             [success |-> FALSE,
              phoneNumber |-> requests[k].phoneNumber,
              error |-> IF settled[k].message = "" THEN "Unknown error"
                        ELSE settled[k].message]
        /\ \A j \in (1..N) \ {k} : results[j].success
        /\ \A j \in (k + 1)..N :
             /\ requests[j].phoneNumber = Candidate(j).phoneNumber
             /\ requests[j].friendlyName = ExpectedName(j)

\* selected = [A, B, C], prefix "Batch", purchase(B) raises "number taken".
C2_Witness ==
  /\ LoopEnded
  /\ N = 3
  /\ friendlyNamePrefix = "Batch"
  /\ OnlyFailureAt(2)
  /\ settled[2].message = "number taken"
  /\ results[3].friendlyName = "Batch 3"

\* C3 as stated: when every create call succeeded, all N outcomes are
\* Success and outcome k records the friendly name "{prefix} k".
C3_RecordedNamesAreNumbered ==
  (LoopEnded /\ AllSucceeded) =>
    /\ Len(results) = N
    /\ \A k \in 1..N :
         /\ results[k].success
         /\ results[k].friendlyName = ExpectedName(k)

\* C3 amended: when every create call succeeded, all N outcomes are Success
\* and the names requested are "{prefix} 1" .. "{prefix} N" in order; outcome
\* k records the name the reply carries ("{prefix} k" when the reply echoes
\* the requested name) and the empty string when the reply carries none.
C3_RequestedNamesAreNumbered ==
  (LoopEnded /\ AllSucceeded) =>
    /\ Len(results) = N
    /\ Len(requests) = N
    /\ \A k \in 1..N :
         /\ results[k].success
         /\ requests[k].friendlyName = ExpectedName(k)
         /\ IF settled[k].purchasedNumber.friendlyName = None
              THEN results[k].friendlyName = ""
              ELSE /\ results[k].friendlyName =
                        settled[k].purchasedNumber.friendlyName[1]
                   /\ (settled[k].purchasedNumber.friendlyName[1] =
                         requests[k].friendlyName
                       => results[k].friendlyName = ExpectedName(k))

C3_Witness ==
  /\ LoopEnded
  /\ AllSucceeded
  /\ N >= 2
  /\ results[1].friendlyName = ExpectedName(1)
  /\ results[2].friendlyName = ""

\* C4: at most one create request is ever outstanding; in the loop the
\* requests issued so far are those of the first selected candidates, one
\* each and in selection order; a request is outstanding exactly while the
\* loop waits for it, every earlier one having settled; the selected
\* candidates are distinct; and when the loop ends N requests were issued.
C4_SequentialSingleAttempts ==
  /\ inflight \in {0, 1}
  /\ InBulkLoop =>
       /\ Len(requests) <= N
       /\ Len(requests) = Len(settled) + inflight
       /\ (pc = "bulkLoop" => inflight = 0 /\ Len(requests) = i)
       /\ (pc = "bulkCreate" => inflight = 1 /\ Len(requests) = i + 1)
       /\ \A k \in 1..Len(requests) :
            requests[k].phoneNumber = Candidate(k).phoneNumber
       /\ \A j, k \in 1..N :
            j # k => Candidate(j).phoneNumber # Candidate(k).phoneNumber
  /\ LoopEnded => Len(requests) = N

\* The second request is outstanding after the first one failed.
C4_Witness ==
  /\ pc = "bulkCreate"
  /\ Len(requests) = 2
  /\ Len(settled) = 1
  /\ ~settled[1].ok
  /\ requests[2].phoneNumber # requests[1].phoneNumber

\* C5: no create request has been issued while the selection prompt is up;
\* past it the selection has between 1 and quantityNum entries, and the
\* requests of the bulk workflow never outnumber quantityNum.
C5_SelectionGate ==
  /\ (action = "bulk-purchase" /\ pc = "bulkSelect") => requests = <<>>
  /\ pc \in {"prefix", "bulkConfirm", "bulkLoop", "bulkCreate"} =>
       /\ N >= 1
       /\ N <= quantityNum
       /\ Len(requests) <= quantityNum
  /\ console # Some("No numbers selected. Purchase cancelled.")

\* A full selection was purchased although more choices were on offer.
C5_Witness ==
  /\ LoopEnded
  /\ Len(requests) = quantityNum
  /\ Len(choices) > quantityNum

\* C6: at the selection prompt the choices are the first
\* min(available, 2 * quantityNum) candidates of the search, in order, and
\* exactly the first min(quantityNum, available) of them are pre-checked.
C6_PreSelection ==
  pc = "bulkSelect" =>
    /\ Len(availableNumbers) >= 1
    /\ Len(choices) = Min(Len(availableNumbers), 2 * quantityNum)
    /\ {k \in 1..Len(choices) : choices[k].checked}
         = 1..Min(quantityNum, Len(availableNumbers))
    /\ \A k \in 1..Len(choices) :
         /\ choices[k].value = k - 1
         /\ choices[k].phoneNumber = availableNumbers[k].phoneNumber

\* More candidates than choices, and a choice that is not pre-checked.
C6_Witness ==
  /\ pc = "bulkSelect"
  /\ Len(choices) < Len(availableNumbers)
  /\ \E k \in 1..Len(choices) : ~choices[k].checked
  /\ \E k \in 1..Len(choices) : choices[k].checked

\* C7: when the bulk workflow calls the remote search, quantityNum is
\* between 1 and 10 and the limit passed is max(2 * quantityNum, 20).
C7_OverFetch ==
  (action = "bulk-purchase" /\ pc = "search") =>
    /\ quantityNum \in 1..10
    /\ searchParams.limit =
         Some(IF 2 * quantityNum >= 20 THEN 2 * quantityNum ELSE 20)

C7_Witness ==
  /\ action = "bulk-purchase"
  /\ pc = "search"
  /\ quantityNum = 10

\* C8: at most one handle is ever created; the stored handle is either
\* absent or that first handle; the credentials prompt is only up while no
\* handle is stored; and past ensureTwilioClient a workflow holds the handle.
C8_LazySingleton ==
  /\ clientsCreated <= 1
  /\ (twilioClient = None <=> clientsCreated = 0)
  /\ twilioClient \in {None, Some(1)}
  /\ pc = "credentials" => twilioClient = None
  /\ pc \in {"list", "searchType", "areaCode", "country", "capabilities",
             "quantity", "search", "purchaseSelect", "purchaseName",
             "purchaseConfirm", "purchaseCreate", "bulkSelect", "prefix",
             "bulkConfirm", "bulkLoop", "bulkCreate"}
       => twilioClient = Some(1)

\* A workflow starts while the handle of an earlier one is stored.
C8_Witness ==
  /\ pc = "ensure"
  /\ twilioClient = Some(1)
  /\ env = "absent"

\* C9: an error thrown in a workflow (by client acquisition or by a remote
\* call) is caught at once by that workflow's catch, which logs its message
\* and returns to the menu loop; the process has not exited, no create call
\* is outstanding, no create request is issued before the menu is back, and
\* the menu prompt is eventually shown again.
C9_SystemicErrorsReturnToMenu ==
  /\ [](pc # "exited")
  /\ [](pc = "thrown" => ~exitProgram /\ inflight = 0)
  /\ [][pc = "thrown" =>
          /\ pc' = "continue"
          /\ console' = Some(CatchMessage)
          /\ requests' = requests]_vars
  /\ [][pc = "continue" => pc' = "menu" /\ ~exitProgram']_vars
  /\ (pc = "thrown") ~> (pc = "menu")

\* The search of a bulk purchase failed and the workflow has returned.
C9_Witness ==
  /\ pc = "continue"
  /\ action = "bulk-purchase"
  /\ console = Some("Error in bulk purchase:")
  /\ requests = <<>>
  /\ ~exitProgram

\* C10: no create request exists up to and including the confirm prompt;
\* whenever requests exist inside a workflow the confirm prompt was answered
\* yes and every requested number is one of this invocation's search
\* results; a workflow that printed "Purchase cancelled." issued none.
C10_NoPurchaseWithoutConfirmation ==
  /\ pc \in {"menu", "ensure", "credentials", "list", "searchType",
             "areaCode", "country", "capabilities", "quantity", "search",
             "purchaseSelect", "purchaseName", "purchaseConfirm",
             "bulkSelect", "prefix", "bulkConfirm"}
       => requests = <<>>
  /\ pc \in {"purchaseCreate", "bulkLoop", "bulkCreate"}
       => confirmPurchase = Some(TRUE)
  /\ (requests # <<>> /\ pc \in {"purchaseCreate", "bulkLoop", "bulkCreate",
                                 "thrown"})
       => /\ confirmPurchase = Some(TRUE)
          /\ \A r \in 1..Len(requests) :
               \E k \in 1..Len(availableNumbers) :
                 availableNumbers[k].phoneNumber = requests[r].phoneNumber
  /\ console = Some("Purchase cancelled.") => requests = <<>>

\* A single purchase was confirmed and its request is outstanding.
C10_Witness ==
  /\ pc = "purchaseCreate"
  /\ action = "purchase-number"
  /\ confirmPurchase = Some(TRUE)
  /\ Len(requests) = 1
  /\ requests[1].phoneNumber = availableNumbers[selectedIndex + 1].phoneNumber

====
